---- MODULE Spec2Model ----
(***************************************************************************)
(* Model of homework.py: a bot that polls the homework-review API and      *)
(* forwards status changes to a Telegram chat.                             *)
(*                                                                         *)
(* Python values are tagged records: None, Str(s), Num(n), List(q) and     *)
(* dictionaries (records with one field per key, Absent marking a key the  *)
(* dictionary does not have).  A formatted text (an f-string) is the       *)
(* sequence of its fragments, Text(<<...>>); two texts are equal exactly   *)
(* when their fragments are.  The Russian literals of the source are       *)
(* written in English.                                                     *)
(***************************************************************************)
EXTENDS Integers, Sequences, FiniteSets, TLC

VARIABLES
    PRACTICUM_TOKEN,    \* os.getenv('PRACTICUM_TOKEN')
    TELEGRAM_TOKEN,     \* os.getenv('TELEGRAM_TOKEN')
    TELEGRAM_CHAT_ID,   \* os.getenv('TELEGRAM_CHAT_ID')
    pc,                 \* position of main
    now,                \* time.time()
    current_timestamp,  \* main's local
    prev_message,       \* main's local
    response,           \* main's local: result of get_api_answer
    homeworks,          \* main's local: result of check_response
    status,             \* main's local: result of parse_status
    err,                \* the exception being handled or propagating
    from_date,          \* 'from_date' parameter of the last GET
    cycle_no,           \* history: number of cycles begun
    ts_before,          \* history: current_timestamp when the cycle began
    prev_before,        \* history: prev_message when the cycle began
    net,                \* history: what the HTTP GET of this cycle did
    failed_in,          \* history: function whose exception ended the try body
    produced,           \* history: texts this cycle formatted for sending
    sends,              \* history: send_message calls of this cycle
    sleeps,             \* history: durations of the time.sleep calls of this cycle
    last_produced,      \* history: produced of the previous cycle
    last_sends,         \* history: sends of the previous cycle
    last_prev_before,   \* history: prev_before of the previous cycle
    last_delivered,     \* history: text of the latest send_message that returned
    arg,                \* argument of the pure function under study
    result              \* what the pure function under study did

tokens == <<PRACTICUM_TOKEN, TELEGRAM_TOKEN, TELEGRAM_CHAT_ID>>
locals == <<response, homeworks, status, err>>
history == <<cycle_no, ts_before, prev_before, net, failed_in, produced,
             sends, sleeps, last_produced, last_sends, last_prev_before,
             last_delivered>>
study == <<arg, result>>
vars == <<tokens, pc, now, current_timestamp, prev_message, locals,
          from_date, history, study>>

(***************************************************************************)
(* Bounds                                                                  *)
(***************************************************************************)
MaxCycles == 3
MaxHomeworks == 2

(***************************************************************************)
(* Python values                                                           *)
(***************************************************************************)
None == [t |-> "none"]
Absent == [t |-> "absent"]
Str(s) == [t |-> "str", s |-> s]
Num(n) == [t |-> "num", n |-> n]
List(q) == [t |-> "list", items |-> q]
Text(parts) == [t |-> "text", parts |-> parts]
NotJson == [t |-> "notjson"]

\* bool(v)
Truthy(v) ==
    CASE v.t = "none" -> FALSE
      [] v.t = "str"  -> v.s # ""
      [] v.t = "num"  -> v.n # 0
      [] v.t = "list" -> v.items # <<>>
      [] OTHER        -> TRUE

\* d.get(k)
Get(d, k) == IF d[k] = Absent THEN None ELSE d[k]

\* type(v), as an f-string prints it
TypeName(v) ==
    CASE v.t = "none" -> "<class 'NoneType'>"
      [] v.t = "str"  -> "<class 'str'>"
      [] v.t = "num"  -> "<class 'int'>"
      [] v.t = "list" -> "<class 'list'>"
      [] OTHER        -> "<class 'dict'>"

\* str(n) for the HTTP status codes of the model
CodeStr(n) == IF n = 200 THEN "200" ELSE IF n = 404 THEN "404" ELSE "500"

Return(v) == [ok |-> TRUE, value |-> v]
Raise(type, parts) == [ok |-> FALSE, exc |-> type, text |-> Text(parts)]

RETRY_TIME == 600
HTTP_OK == 200

\* mutant: the verdicts of approved and rejected exchanged
HOMEWORK_STATUSES_Swapped ==
    [approved  |-> "Work checked: the reviewer has remarks.",
     reviewing |-> "Work taken for review by the reviewer.",
     rejected  |-> "Work checked: the reviewer liked everything. Hooray!"]

HOMEWORK_STATUSES ==
    [approved  |-> "Work checked: the reviewer liked everything. Hooray!",
     reviewing |-> "Work taken for review by the reviewer.",
     rejected  |-> "Work checked: the reviewer has remarks."]

\* HOMEWORK_STATUSES.get(key)
Verdict(key) ==
    IF key.t = "str" /\ key.s \in DOMAIN HOMEWORK_STATUSES
    THEN Str(HOMEWORK_STATUSES[key.s]) ELSE None

(***************************************************************************)
(* get_api_answer, check_response, parse_status                            *)
(***************************************************************************)
\* mutant: from_date is always the current time
RequestTimestampNow(ts, time) == time

\* the timestamp sent as from_date (line 49)
RequestTimestamp(ts, time) == IF ts # 0 THEN ts ELSE time

\* mutant: current_date is asked for even when homeworks is empty
check_response_DateRequired(r) ==
    IF r.t # "dict"
    THEN Raise("TypeError", <<"Wrong response data type: ", TypeName(r), " != dict">>)
    ELSE LET hw == Get(r, "homeworks")
             current_date == Get(r, "current_date")
         IN IF hw.t # "list"
            THEN Raise("TypeError",
                       <<"Wrong homework data type: ", TypeName(r), " != list">>)
            ELSE IF ~Truthy(current_date)
            THEN Raise("KeyError", <<"API keys are missing">>)
            ELSE Return(hw)

\* mutant: the status code of the response is not looked at
get_api_answer_AnyStatus(n) ==
    IF n.kind = "exception"
    THEN Raise("ApiAnswerError", <<"Endpoint unavailable. Error: ", n.detail>>)
    ELSE IF n.body = NotJson
    THEN Raise("ValueError", <<"Error decoding json.">>)
    ELSE Return(n.body)

\* n: what requests.get did, [kind |-> "exception", detail] or
\* [kind |-> "response", status_code, body]
get_api_answer(n) ==
    IF n.kind = "exception"
    THEN Raise("ApiAnswerError", <<"Endpoint unavailable. Error: ", n.detail>>)
    ELSE IF n.status_code # HTTP_OK
    THEN Raise("ApiAnswerError",
               <<"Endpoint unavailable. API response code: ",
                 CodeStr(n.status_code)>>)
    ELSE IF n.body = NotJson
    THEN Raise("ValueError", <<"Error decoding json.">>)
    ELSE Return(n.body)

check_response(r) ==
    IF r.t # "dict"
    THEN Raise("TypeError", <<"Wrong response data type: ", TypeName(r), " != dict">>)
    ELSE LET hw == Get(r, "homeworks")
             current_date == Get(r, "current_date")
         IN IF hw.t # "list"
            THEN Raise("TypeError",
                       <<"Wrong homework data type: ", TypeName(r), " != list">>)
            ELSE IF Truthy(hw) /\ (~Truthy(hw) \/ ~Truthy(current_date))
            THEN Raise("KeyError", <<"API keys are missing">>)
            ELSE Return(hw)

parse_status(homework) ==
    LET homework_name == Get(homework, "homework_name")
        homework_status == Get(homework, "status")
        verdict == Verdict(homework_status)
    IN IF ~Truthy(homework_name) \/ ~Truthy(homework_status)
       THEN Raise("KeyError", <<"Keys of the last homework are missing">>)
       ELSE IF ~Truthy(verdict)
       THEN Raise("StatusError",
                  <<"Undocumented homework status ", homework_status.s>>)
       ELSE Return(Text(<<"Homework review status changed \"", homework_name.s,
                          "\". ", verdict.s>>))

(***************************************************************************)
(* send_message and the start-up check                                     *)
(***************************************************************************)
\* what bot.send_message can do: deliver, or raise a telegram.error.TelegramError
TelegramErrors == {"Timed out"}
Deliveries == {"delivered"} \cup TelegramErrors

send_message(message, delivery) ==
    IF delivery \in TelegramErrors
    THEN Raise("TelegramSendMessageError", <<"Error sending message ", delivery>>)
    ELSE Return(None)

check_tokens ==
    Truthy(PRACTICUM_TOKEN) /\ Truthy(TELEGRAM_TOKEN) /\ Truthy(TELEGRAM_CHAT_ID)

error_tokens_message ==
    Text(<<"Missing required environment variables: ">>
         \o (IF Truthy(PRACTICUM_TOKEN) THEN <<>> ELSE <<"PRACTICUM_TOKEN, ">>)
         \o (IF Truthy(TELEGRAM_TOKEN) THEN <<>> ELSE <<"TELEGRAM_TOKEN, ">>)
         \o (IF Truthy(TELEGRAM_CHAT_ID) THEN <<>> ELSE <<"TELEGRAM_CHAT_ID, ">>)
         \o <<"program force-stopped!">>)

\* mutant: one of the two Telegram settings is enough to try the send
error_tokens_try_send_message_Either(message, delivery) ==
    IF Truthy(TELEGRAM_TOKEN) \/ Truthy(TELEGRAM_CHAT_ID)
    THEN <<[text |-> message, ok |-> send_message(message, delivery).ok]>>
    ELSE <<>>

\* the send_message calls error_tokens_try_send_message makes; its
\* TelegramSendMessageError is logged and dropped
error_tokens_try_send_message(message, delivery) ==
    IF Truthy(TELEGRAM_TOKEN) /\ Truthy(TELEGRAM_CHAT_ID)
    THEN <<[text |-> message, ok |-> send_message(message, delivery).ok]>>
    ELSE <<>>

\* mutant: the exception text without the prefix
ErrorMessageBare(e) == e.text

\* f'Program failure: {err}' (line 148)
ErrorMessage(e) == Text(<<"Program failure: ">> \o e.text.parts)

(***************************************************************************)
(* What the outside world can hand to the program                          *)
(***************************************************************************)
TokenValues == {None, Str(""), Str("token")}

Names == {Str("HW1")}
Statuses == {Str("approved"), Str("reviewing"), Str("rejected"), Str("archived")}
Homework(name, st) == [t |-> "dict", homework_name |-> name, status |-> st]
FirstRecords == {Homework(n, s) : n \in Names, s \in Statuses}
                \cup {Homework(Absent, Str("approved")),
                      Homework(Str("HW1"), Absent)}
LaterRecords == {Homework(Str("HW3"), Str("archived")),
                 Homework(Absent, Absent)}

RECURSIVE Tails(_)
Tails(n) == IF n = 0 THEN {<<>>}
            ELSE Tails(n - 1) \cup
                 {Append(q, r) : q \in Tails(n - 1), r \in LaterRecords}

HomeworkLists == {<<>>} \cup
                 {<<r>> \o q : r \in FirstRecords, q \in Tails(MaxHomeworks - 1)}
CurrentDates == {Absent, Num(1000)}
Response(hw, cd) == [t |-> "dict", homeworks |-> hw, current_date |-> cd]
Bodies == {NotJson, List(<<>>)}
          \cup {Response(hw, cd) : hw \in {Absent, Str("none")}, cd \in CurrentDates}
          \cup {Response(List(q), cd) : q \in HomeworkLists, cd \in CurrentDates}
RequestErrors == {"ConnectionError", "ReadTimeout"}
NetOutcomes ==
    {[kind |-> "exception", detail |-> d] : d \in RequestErrors}
    \cup {[kind |-> "response", status_code |-> 500, body |-> NotJson]}
    \cup {[kind |-> "response", status_code |-> HTTP_OK, body |-> b] : b \in Bodies}

(***************************************************************************)
(* main                                                                    *)
(***************************************************************************)
Init ==
    /\ PRACTICUM_TOKEN \in TokenValues
    /\ TELEGRAM_TOKEN \in TokenValues
    /\ TELEGRAM_CHAT_ID \in TokenValues
    /\ pc = "start"
    /\ now = 1
    /\ current_timestamp = 0
    /\ prev_message = None
    /\ response = None
    /\ homeworks = None
    /\ status = None
    /\ err = None
    /\ from_date = 0
    /\ cycle_no = 0
    /\ ts_before = 0
    /\ prev_before = None
    /\ net = None
    /\ failed_in = "none"
    /\ produced = <<>>
    /\ sends = <<>>
    /\ sleeps = <<>>
    /\ last_produced = <<>>
    /\ last_sends = <<>>
    /\ last_prev_before = None
    /\ last_delivered = None
    /\ arg = None
    /\ result = None

\* the text of the latest call among q that returned, old when the latest
\* call raised or there was none
Delivered(q, old) == IF q # <<>> /\ q[Len(q)].ok THEN q[Len(q)].text ELSE old

\* main, lines 127-131: a token is missing
ExitOnMissingTokens ==
    /\ pc = "start"
    /\ ~check_tokens
    /\ \E delivery \in Deliveries :
          sends' = error_tokens_try_send_message(error_tokens_message, delivery)
    /\ produced' = <<error_tokens_message>>
    /\ pc' = "exited"
    /\ last_delivered' = Delivered(sends', last_delivered)
    /\ UNCHANGED <<tokens, now, current_timestamp, prev_message, locals,
                   from_date, cycle_no, ts_before, prev_before, net, failed_in,
                   sleeps, last_produced, last_sends,
                   last_prev_before, study>>

\* main, lines 132-134
StartLoop ==
    /\ pc = "start"
    /\ check_tokens
    /\ current_timestamp' = now
    /\ prev_message' = None
    /\ pc' = "get_api_answer"
    /\ UNCHANGED <<tokens, now, locals, from_date, history, study>>

\* line 137; a new cycle begins here
GetApiAnswer ==
    /\ pc = "get_api_answer"
    /\ cycle_no < MaxCycles
    /\ \E n \in NetOutcomes :
          LET r == get_api_answer(n)
          IN /\ net' = n
             /\ IF r.ok
                THEN /\ response' = r.value
                     /\ failed_in' = "none"
                     /\ pc' = "check_response"
                     /\ UNCHANGED err
                ELSE /\ err' = r
                     /\ failed_in' = "get_api_answer"
                     /\ pc' = "except"
                     /\ UNCHANGED response
    /\ from_date' = RequestTimestamp(current_timestamp, now)
    /\ cycle_no' = cycle_no + 1
    /\ ts_before' = current_timestamp
    /\ prev_before' = prev_message
    /\ last_produced' = produced
    /\ last_sends' = sends
    /\ last_prev_before' = prev_before
    /\ produced' = <<>>
    /\ sends' = <<>>
    /\ sleeps' = <<>>
    /\ UNCHANGED <<tokens, now, current_timestamp, prev_message, homeworks,
                   status, last_delivered, study>>

\* lines 138-139, 144-145
CheckResponse ==
    /\ pc = "check_response"
    /\ LET r == check_response(response)
       IN IF r.ok
          THEN /\ homeworks' = r.value
               /\ pc' = IF Truthy(r.value) THEN "parse_status" ELSE "advance"
               /\ UNCHANGED <<err, failed_in>>
          ELSE /\ err' = r
               /\ failed_in' = "check_response"
               /\ pc' = "except"
               /\ UNCHANGED homeworks
    /\ UNCHANGED <<tokens, now, current_timestamp, prev_message, response,
                   status, from_date, cycle_no, ts_before, prev_before, net,
                   produced, sends, sleeps, last_produced, last_sends,
                   last_prev_before, last_delivered, study>>

\* mutant: a status text is sent only while nothing has been sent yet
StatusIsNewOnlyFirst(st, prev) == prev = None

\* mutant: every status text is sent
StatusIsNewAlways(st, prev) == TRUE

\* line 141: whether the status text goes to send_message
StatusIsNew(st, prev) == st # prev

\* mutant: the last record of the list
LastHomework(hw) == hw.items[Len(hw.items)]

\* homeworks[0] (line 140)
FirstHomework(hw) == hw.items[1]

\* lines 140-141
ParseStatus ==
    /\ pc = "parse_status"
    /\ LET r == parse_status(FirstHomework(homeworks))
       IN IF r.ok
          THEN /\ status' = r.value
               /\ produced' = Append(produced, r.value)
               /\ pc' = IF StatusIsNew(r.value, prev_message)
                       THEN "send_message" ELSE "advance"
               /\ UNCHANGED <<err, failed_in>>
          ELSE /\ err' = r
               /\ failed_in' = "parse_status"
               /\ pc' = "except"
               /\ UNCHANGED <<status, produced>>
    /\ UNCHANGED <<tokens, now, current_timestamp, prev_message, response,
                   homeworks, from_date, cycle_no, ts_before, prev_before, net,
                   sends, sleeps, last_produced, last_sends,
                   last_prev_before, last_delivered, study>>

\* mutant: prev_message is assigned before the send, so a text whose send
\* raised is recorded too
SendStatus_RecordAttempt ==
    /\ pc = "send_message"
    /\ \E delivery \in Deliveries :
          LET r == send_message(status, delivery)
          IN /\ sends' = Append(sends, [text |-> status, ok |-> r.ok])
             /\ IF r.ok
                THEN /\ prev_message' = status
                     /\ pc' = "advance"
                     /\ UNCHANGED <<err, failed_in>>
                ELSE /\ err' = r
                     /\ failed_in' = "send_message"
                     /\ pc' = "except"
                     /\ prev_message' = status
    /\ last_delivered' = Delivered(sends', last_delivered)
    /\ UNCHANGED <<tokens, now, current_timestamp, response, homeworks, status,
                   from_date, cycle_no, ts_before, prev_before, net, produced,
                   sleeps, last_produced, last_sends,
                   last_prev_before, study>>

\* lines 142-143
SendStatus ==
    /\ pc = "send_message"
    /\ \E delivery \in Deliveries :
          LET r == send_message(status, delivery)
          IN /\ sends' = Append(sends, [text |-> status, ok |-> r.ok])
             /\ IF r.ok
                THEN /\ prev_message' = status
                     /\ pc' = "advance"
                     /\ UNCHANGED <<err, failed_in>>
                ELSE /\ err' = r
                     /\ failed_in' = "send_message"
                     /\ pc' = "except"
                     /\ UNCHANGED prev_message
    /\ last_delivered' = Delivered(sends', last_delivered)
    /\ UNCHANGED <<tokens, now, current_timestamp, response, homeworks, status,
                   from_date, cycle_no, ts_before, prev_before, net, produced,
                   sleeps, last_produced, last_sends,
                   last_prev_before, study>>

\* mutant: line 146 raises (int() of the function instead of its result)
Advance_Raising ==
    /\ pc = "advance"
    /\ err' = Raise("TypeError", <<"int() argument must be a number">>)
    /\ failed_in' = "advance"
    /\ pc' = "except"
    /\ UNCHANGED <<tokens, now, current_timestamp, prev_message, response,
                   homeworks, status, from_date, cycle_no, ts_before,
                   prev_before, net, produced, sends, sleeps, last_produced,
                   last_sends, last_prev_before, last_delivered, study>>

\* line 146
Advance ==
    /\ pc = "advance"
    /\ current_timestamp' = now
    /\ pc' = "finally"
    /\ UNCHANGED <<tokens, now, prev_message, locals, from_date, history, study>>

\* mutant: every error text is sent
ErrorIsNewAlways(message, prev) == TRUE

\* line 150: whether the error text goes to send_message
ErrorIsNew(message, prev) == message # prev

\* lines 147-152; an exception of this send_message leaves the handler
Except ==
    /\ pc = "except"
    /\ LET message == ErrorMessage(err)
       IN /\ produced' = Append(produced, message)
          /\ IF ErrorIsNew(message, prev_message)
             THEN \E delivery \in Deliveries :
                     LET r == send_message(message, delivery)
                     IN /\ sends' = Append(sends, [text |-> message, ok |-> r.ok])
                        /\ IF r.ok
                           THEN /\ prev_message' = message
                                /\ err' = None
                           ELSE /\ err' = r
                                /\ UNCHANGED prev_message
             ELSE /\ err' = None
                  /\ UNCHANGED <<sends, prev_message>>
    /\ pc' = "finally"
    /\ last_delivered' = Delivered(sends', last_delivered)
    /\ UNCHANGED <<tokens, now, current_timestamp, response, homeworks, status,
                   from_date, cycle_no, ts_before, prev_before, net, failed_in,
                   sleeps, last_produced, last_sends,
                   last_prev_before, study>>

\* mutant: the sleep follows the try statement instead of being its finally
\* clause, so a propagating exception skips it
SleepAfterTry ==
    /\ pc = "finally"
    /\ now' = IF err = None THEN now + RETRY_TIME ELSE now
    /\ sleeps' = IF err = None THEN Append(sleeps, RETRY_TIME) ELSE sleeps
    /\ pc' = IF err = None THEN "get_api_answer" ELSE "crashed"
    /\ response' = None
    /\ homeworks' = None
    /\ status' = None
    /\ net' = None
    /\ UNCHANGED <<tokens, current_timestamp, prev_message, err, from_date,
                   cycle_no, ts_before, prev_before, failed_in, produced,
                   sends, last_produced, last_sends,
                   last_prev_before, last_delivered, study>>

\* lines 153-154, then the next iteration, or the end of main when an
\* exception is propagating; the locals (and the record of the GET) are dead
\* once the cycle is over
Sleep ==
    /\ pc = "finally"
    /\ now' = now + RETRY_TIME
    /\ sleeps' = Append(sleeps, RETRY_TIME)
    /\ pc' = IF err = None THEN "get_api_answer" ELSE "crashed"
    /\ response' = None
    /\ homeworks' = None
    /\ status' = None
    /\ net' = None
    /\ UNCHANGED <<tokens, current_timestamp, prev_message, err, from_date,
                   cycle_no, ts_before, prev_before, failed_in, produced,
                   sends, last_produced, last_sends,
                   last_prev_before, last_delivered, study>>

Next ==
    \/ ExitOnMissingTokens
    \/ StartLoop
    \/ GetApiAnswer
    \/ CheckResponse
    \/ ParseStatus
    \/ SendStatus
    \/ Advance
    \/ Except
    \/ Sleep

Spec == Init /\ [][Next]_vars

TypeOK ==
    /\ pc \in {"start", "exited", "get_api_answer", "check_response",
               "parse_status", "send_message", "advance", "except", "finally",
               "crashed", "call check_response", "check_response returned",
               "call parse_status", "parse_status returned",
               "call get_api_answer", "get_api_answer returned",
               "call cycle", "cycle returned"}
    /\ cycle_no \in 0..MaxCycles
    /\ Len(sleeps) \in 0..1

(***************************************************************************)
(* Properties of the polling loop                                          *)
(***************************************************************************)
Texts(q) == {q[i] : i \in DOMAIN q}
\* number of send_message calls with text t among the calls q
Calls(q, t) == Cardinality({i \in DOMAIN q : q[i].text = t})
FailedCalls(q, t) == Cardinality({i \in DOMAIN q : q[i].text = t /\ ~q[i].ok})
InLoop == pc \notin {"start", "exited"}
ErrorPrefixed(m) == m.t = "text" /\ Head(m.parts) = "Program failure: "
\* the cycle's try body and handler are over; only the finally clause is left
CycleOver == pc = "finally"
\* the texts both this cycle and the previous one produced
Repeated == IF cycle_no >= 2 THEN Texts(produced) \cap Texts(last_produced) ELSE {}

\* C1 (as stated): over two consecutive cycles that produce the same text,
\* send_message is called at most once with that text, whatever the sends did.
C1_AtMostOneSendWhateverOutcome ==
    \A t \in Repeated : Calls(last_sends, t) + Calls(sends, t) <= 1

\* C1 (amended): over two consecutive cycles that produce the same text,
\* send_message is called at most once with that text unless the send of
\* that text failed in the first of the two cycles; then it is called
\* again in the second, and never more than twice in total.
C1_AtMostOneSendUnlessFailed ==
    \A t \in Repeated :
        Calls(last_sends, t) + Calls(sends, t)
            <= (IF FailedCalls(last_sends, t) > 0 THEN 2 ELSE 1)

C1_Witness ==
    /\ CycleOver
    /\ \E t \in Repeated :
          /\ Calls(last_sends, t) = 1
          /\ FailedCalls(last_sends, t) = 0
          /\ Calls(sends, t) = 0

\* C2 (as stated): once the loop has begun, a failure of send_message while
\* reporting a cycle error does not leave the cycle: main never ends with
\* that exception, so another cycle can always start.
C2_ErrorNotifyFailureNotPropagated ==
    InLoop => /\ pc # "crashed"
              /\ (CycleOver /\ failed_in # "none" => err = None)

\* C3: every failure of the try body (get_api_answer, check_response,
\* parse_status, or send_message of a status text) reaches the handler,
\* becomes exactly one error text, and that text is passed to send_message
\* if and only if it differs from prev_message.
C3_FailuresRoutedThroughDedup ==
    /\ pc = "except" => failed_in # "none" /\ err # None
    /\ CycleOver /\ failed_in # "none" =>
          LET message == produced[Len(produced)]
          IN /\ ErrorPrefixed(message)
             /\ Cardinality({i \in DOMAIN produced : ErrorPrefixed(produced[i])}) = 1
             /\ Calls(sends, message) = (IF message # prev_before THEN 1 ELSE 0)
             /\ failed_in # "send_message" => Len(sends) = Calls(sends, message)

C3_Witness ==
    /\ CycleOver
    /\ failed_in = "parse_status"
    /\ sends = <<>>
    /\ prev_before # None

FetchValidateDescribe == {"get_api_answer", "check_response", "parse_status"}

\* C4: a cycle in which get_api_answer, check_response or parse_status
\* fails leaves current_timestamp as it was when the cycle began, and the
\* next GET carries the same from_date.
C4_FailedCycleKeepsTimestamp ==
    /\ [](cycle_no > 0 /\ failed_in \in FetchValidateDescribe
             => current_timestamp = ts_before)
    /\ [][cycle_no > 0 /\ failed_in \in FetchValidateDescribe
             /\ cycle_no' = cycle_no + 1
             => from_date' = from_date]_vars

C4_Witness ==
    /\ cycle_no >= 2
    /\ pc = "get_api_answer"
    /\ failed_in = "check_response"
    /\ current_timestamp < now - RETRY_TIME

\* the response of this cycle is well formed: a mapping with current_date
\* and a non-empty homeworks list whose first record has a name and a
\* recognized status
Recognized == {"approved", "reviewing", "rejected"}
WellFormed ==
    /\ net.kind = "response" /\ net.status_code = 200
    /\ response.t = "dict"
    /\ response.current_date.t = "num" /\ response.current_date.n > 0
    /\ response.homeworks.t = "list"
    /\ Len(response.homeworks.items) > 0
    /\ LET first == response.homeworks.items[1]
       IN /\ first.homework_name.t = "str" /\ first.homework_name.s # ""
          /\ first.status.t = "str" /\ first.status.s \in Recognized
\* the status text of the first record, written out
FirstRecordMessage ==
    LET first == response.homeworks.items[1]
    IN Text(<<"Homework review status changed \"", first.homework_name.s, "\". ",
              CASE first.status.s = "approved" ->
                     "Work checked: the reviewer liked everything. Hooray!"
                [] first.status.s = "reviewing" ->
                     "Work taken for review by the reviewer."
                [] first.status.s = "rejected" ->
                     "Work checked: the reviewer has remarks.">>)

\* C5: in a successful cycle on a well-formed response whose first record
\* has a recognized status and whose message differs from prev_message,
\* send_message is called exactly once, with the status text of the first
\* record; prev_message becomes that text and current_timestamp the
\* current time.
C5_SuccessfulCycle ==
    CycleOver /\ failed_in = "none" /\ WellFormed
              /\ FirstRecordMessage # prev_before =>
        /\ sends = <<[text |-> FirstRecordMessage, ok |-> TRUE]>>
        /\ prev_message = FirstRecordMessage
        /\ current_timestamp = now

C5_Witness ==
    /\ CycleOver /\ failed_in = "none" /\ WellFormed
    /\ cycle_no >= 2
    /\ prev_before # None
    /\ FirstRecordMessage # prev_before
    /\ Len(response.homeworks.items) > 1
    /\ current_timestamp > ts_before

TransportError == net # None /\ net.kind = "exception"
TransportErrorMessage ==
    Text(<<"Program failure: ", "Endpoint unavailable. Error: ", net.detail>>)

\* C6 (as stated): in a cycle whose GET fails with a transport error,
\* send_message is called exactly once, with an error-prefixed text.
C6_TransportErrorNotifiedOnce ==
    CycleOver /\ TransportError =>
        Len(sends) = 1 /\ ErrorPrefixed(sends[1].text)

\* C6 (amended): in a cycle whose GET fails with a transport error,
\* send_message is called exactly once, with the error-prefixed text of that
\* error, unless that text equals prev_message; then it is not called.
C6_TransportErrorNotifiedOnceUnlessRepeated ==
    CycleOver /\ TransportError =>
        /\ failed_in = "get_api_answer"
        /\ ErrorPrefixed(TransportErrorMessage)
        /\ [i \in DOMAIN sends |-> sends[i].text]
              = (IF TransportErrorMessage # prev_before
                 THEN <<TransportErrorMessage>> ELSE <<>>)

C6_Witness ==
    /\ CycleOver /\ TransportError
    /\ Len(sends) = 1
    /\ prev_before # None

\* C7: every cycle ends with exactly one sleep of RETRY_TIME before the next
\* cycle or the end of main, whether the cycle succeeded, failed, or failed
\* while sending the error text; no two GETs happen without a sleep between.
C7_OneSleepPerCycle ==
    /\ [](/\ pc \in {"check_response", "parse_status", "send_message",
                     "advance", "except", "finally"} => sleeps = <<>>
          /\ cycle_no > 0 /\ pc \in {"get_api_answer", "crashed"}
                => sleeps = <<RETRY_TIME>>)
    /\ [][/\ cycle_no > 0 /\ cycle_no' = cycle_no + 1 => sleeps = <<RETRY_TIME>>
          /\ now' # now => now' = now + RETRY_TIME /\ pc = "finally"]_vars

C7_Witness ==
    /\ pc = "crashed"
    /\ sleeps = <<RETRY_TIME>>
    /\ Len(sends) > 0 /\ ~sends[Len(sends)].ok

(***************************************************************************)
(* Properties of the start-up check                                        *)
(***************************************************************************)
Missing(token) == token = None \/ token = Str("")
AnyTokenMissing ==
    Missing(PRACTICUM_TOKEN) \/ Missing(TELEGRAM_TOKEN) \/ Missing(TELEGRAM_CHAT_ID)

\* C8: when one of the three settings is missing main exits before the
\* loop: no GET, no cycle; before it exits it calls send_message exactly
\* once when TELEGRAM_TOKEN and TELEGRAM_CHAT_ID are both there and not at
\* all otherwise, and it exits whether or not that send failed.
C8_MissingTokenExits ==
    /\ [](AnyTokenMissing =>
            /\ pc \in {"start", "exited"}
            /\ cycle_no = 0 /\ from_date = 0 /\ sleeps = <<>>
            /\ pc = "exited" =>
                  Len(sends) = (IF ~Missing(TELEGRAM_TOKEN)
                                   /\ ~Missing(TELEGRAM_CHAT_ID) THEN 1 ELSE 0))
    /\ [](~AnyTokenMissing => pc # "exited")
    /\ [][AnyTokenMissing /\ pc = "start" => pc' = "exited"]_vars

C8_Witness ==
    /\ pc = "exited"
    /\ Missing(PRACTICUM_TOKEN)
    /\ Len(sends) = 1 /\ ~sends[1].ok

(***************************************************************************)
(* check_response and parse_status on their own: the argument is drawn     *)
(* from what a JSON body can hold, the function is applied once.           *)
(***************************************************************************)
StudyInit(inputs, at) ==
    /\ PRACTICUM_TOKEN = Str("token")
    /\ TELEGRAM_TOKEN = Str("token")
    /\ TELEGRAM_CHAT_ID = Str("token")
    /\ pc = at
    /\ now = 1
    /\ current_timestamp = 0
    /\ prev_message = None
    /\ response = None
    /\ homeworks = None
    /\ status = None
    /\ err = None
    /\ from_date = 0
    /\ cycle_no = 0
    /\ ts_before = 0
    /\ prev_before = None
    /\ net = None
    /\ failed_in = "none"
    /\ produced = <<>>
    /\ sends = <<>>
    /\ sleeps = <<>>
    /\ last_produced = <<>>
    /\ last_sends = <<>>
    /\ last_prev_before = None
    /\ last_delivered = None
    /\ arg \in inputs
    /\ result = None

StudyRecords == {Homework(Str("HW1"), Str("approved")),
                 Homework(Str("HW2"), Str("archived")),
                 Homework(Absent, Str("rejected"))}
RECURSIVE StudyLists(_)
StudyLists(n) == IF n = 0 THEN {<<>>}
                 ELSE StudyLists(n - 1) \cup
                      {Append(q, r) : q \in StudyLists(n - 1), r \in StudyRecords}
StudyHomeworks == {Absent, None, Str(""), Str("HW1"), Num(0), Num(1),
                   Homework(Str("HW1"), Str("approved"))}
                  \cup {List(q) : q \in StudyLists(MaxHomeworks)}
StudyDates == {Absent, None, Num(0), Num(1000), Str("")}
ValidateInputs ==
    {None, Str("homeworks"), Num(5), List(<<>>),
     List(<<Homework(Str("HW1"), Str("approved"))>>)}
    \cup {Response(hw, cd) : hw \in StudyHomeworks, cd \in StudyDates}

InitValidate == StudyInit(ValidateInputs, "call check_response")

ApplyCheckResponse ==
    /\ pc = "call check_response"
    /\ result' = check_response(arg)
    /\ pc' = "check_response returned"
    /\ UNCHANGED <<tokens, now, current_timestamp, prev_message, locals,
                   from_date, history, arg>>

NextValidate == ApplyCheckResponse

SpecValidate == InitValidate /\ [][NextValidate]_vars

\* a key is absent when the mapping does not have it or holds null for it
KeyAbsent(v) == v = Absent \/ v = None

\* C9 (as stated): check_response fails exactly when the response is not a
\* mapping, when homeworks is missing or not a list, or when homeworks is
\* non-empty and current_date is absent; otherwise, whatever value
\* current_date has, it returns the homeworks list unchanged.
C9_ValidateFailsExactlyWhen ==
    pc = "check_response returned" =>
        LET mustFail ==
                \/ arg.t # "dict"
                \/ arg.homeworks.t # "list"
                \/ arg.homeworks.items # <<>> /\ KeyAbsent(arg.current_date)
        IN IF mustFail THEN ~result.ok
           ELSE result.ok /\ result.value = arg.homeworks

StudyNames == {Absent, None, Str(""), Str("HW1"), Str("HW2"), Str("HW3"),
               Str("Final project")}
StudyStatuses == {Absent, None, Str(""), Str("approved"), Str("reviewing"),
                  Str("rejected"), Str("archived"), Str("APPROVED")}
ParseInputs == {Homework(n, s) : n \in StudyNames, s \in StudyStatuses}

InitParse == StudyInit(ParseInputs, "call parse_status")

ApplyParseStatus ==
    /\ pc = "call parse_status"
    /\ result' = parse_status(arg)
    /\ pc' = "parse_status returned"
    /\ UNCHANGED <<tokens, now, current_timestamp, prev_message, locals,
                   from_date, history, arg>>

NextParse == ApplyParseStatus

SpecParse == InitParse /\ [][NextParse]_vars

Contains(text, fragment) == \E i \in DOMAIN text.parts : text.parts[i] = fragment

\* C10 (as stated): parse_status fails with the missing-field error when
\* homework_name or status is absent, with the unknown-status error when
\* status is not approved, reviewing or rejected, and otherwise returns a
\* text that contains the homework name and the verdict of that status.
C10_DescribeStatus ==
    pc = "parse_status returned" =>
        IF KeyAbsent(arg.homework_name) \/ KeyAbsent(arg.status)
        THEN ~result.ok /\ result.exc = "KeyError"
        ELSE IF arg.status.s \notin Recognized
        THEN ~result.ok /\ result.exc = "StatusError"
        ELSE /\ result.ok
             /\ Contains(result.value, arg.homework_name.s)
             /\ Contains(result.value, HOMEWORK_STATUSES[arg.status.s])

(***************************************************************************)
(* get_api_answer on its own: what requests.get did is drawn, the function *)
(* is applied once.                                                        *)
(***************************************************************************)
StatusCodes == {HTTP_OK, 404, 500}
FetchInputs ==
    {[kind |-> "exception", detail |-> d] : d \in RequestErrors}
    \cup {[kind |-> "response", status_code |-> c, body |-> b] :
             c \in StatusCodes, b \in Bodies}

InitFetch == StudyInit(FetchInputs, "call get_api_answer")

ApplyGetApiAnswer ==
    /\ pc = "call get_api_answer"
    /\ result' = get_api_answer(arg)
    /\ pc' = "get_api_answer returned"
    /\ UNCHANGED <<tokens, now, current_timestamp, prev_message, locals,
                   from_date, history, arg>>

NextFetch == ApplyGetApiAnswer

SpecFetch == InitFetch /\ [][NextFetch]_vars

NoValue(r) == ~r.ok /\ "value" \notin DOMAIN r

\* C11: get_api_answer fails with ApiAnswerError when the transport raises
\* or the status code is not 200, and with ValueError when the body of a 200
\* response is not JSON; a failure carries no value, and the parsed body is
\* returned only for a 200 response with a JSON body.
C11_FetchFailsOrReturnsBody ==
    pc = "get_api_answer returned" =>
        IF arg.kind = "exception" \/ arg.status_code # 200
        THEN NoValue(result) /\ result.exc = "ApiAnswerError"
        ELSE IF arg.body = NotJson
        THEN NoValue(result) /\ result.exc = "ValueError"
        ELSE result.ok /\ result.value = arg.body

C11_Witness ==
    /\ pc = "get_api_answer returned"
    /\ arg.kind = "response"
    /\ arg.status_code = 500
    /\ arg.body.t = "dict"
    /\ NoValue(result)

(***************************************************************************)
(* Further properties of the polling loop                                  *)
(***************************************************************************)
StatusText(m) == m.t = "text" /\ ~ErrorPrefixed(m)
Delivery(m) == [text |-> m, ok |-> TRUE]

\* C12: the comparison is with the immediately preceding text only: a cycle
\* that produces a text (status or error) different from prev_message passes
\* it to send_message, also when that text was already sent before an
\* intervening different message.
C12_DifferentTextIsSent ==
    cycle_no > 0 /\ pc \in {"advance", "finally"} =>
        \A i \in DOMAIN produced :
            produced[i] # prev_before => Calls(sends, produced[i]) = 1

\* the status text that was prev_message two cycles ago is delivered again
\* after the error text delivered in between
C12_Witness ==
    /\ CycleOver
    /\ cycle_no >= 3
    /\ StatusText(last_prev_before)
    /\ \E i \in DOMAIN last_sends :
          last_sends[i].ok /\ ErrorPrefixed(last_sends[i].text)
    /\ ErrorPrefixed(prev_before)
    /\ sends = <<Delivery(last_prev_before)>>

\* the GET of this cycle returned a mapping whose homeworks is the empty list
EmptyHomeworks ==
    /\ response # None
    /\ response.t = "dict"
    /\ response.homeworks = List(<<>>)

\* C13: a cycle whose homeworks list is empty succeeds and sends nothing:
\* no send_message call, prev_message as before, current_timestamp set to
\* the current time.
C13_EmptyHomeworksSendsNothing ==
    /\ EmptyHomeworks /\ pc \in {"advance", "finally"} =>
          /\ failed_in = "none"
          /\ homeworks = List(<<>>)
          /\ produced = <<>>
          /\ sends = <<>>
          /\ prev_message = prev_before
    /\ EmptyHomeworks /\ CycleOver => current_timestamp = now /\ err = None

C13_Witness ==
    /\ EmptyHomeworks /\ CycleOver
    /\ response.current_date = Absent
    /\ prev_message # None
    /\ current_timestamp > ts_before

(***************************************************************************)
(* One cycle on two responses that differ in the records after the first:  *)
(* the two responses and prev_message are drawn, lines 138-152 are applied *)
(* to each.                                                                *)
(***************************************************************************)
\* lines 147-150: the cycle failed with e; message is what goes to send_message
Failure(e, prev) ==
    [failed |-> TRUE,
     message |-> IF ErrorIsNew(ErrorMessage(e), prev) THEN ErrorMessage(e) ELSE None]

\* lines 138-152 for the response r: whether the cycle fails and the text it
\* passes to send_message (None when it passes none)
CycleOutcome(r, prev) ==
    LET checked == check_response(r)
    IN IF ~checked.ok THEN Failure(checked, prev)
       ELSE IF ~Truthy(checked.value) THEN [failed |-> FALSE, message |-> None]
       ELSE LET st == parse_status(FirstHomework(checked.value))
            IN IF ~st.ok THEN Failure(st, prev)
               ELSE [failed |-> FALSE,
                     message |-> IF StatusIsNew(st.value, prev)
                                 THEN st.value ELSE None]

NonEmptyLists == HomeworkLists \ {<<>>}
PrevMessages ==
    {None,
     Text(<<"Homework review status changed \"", "HW1", "\". ",
            HOMEWORK_STATUSES.approved>>),
     Text(<<"Program failure: ", "Keys of the last homework are missing">>)}
SameFirst == {pair \in NonEmptyLists \X NonEmptyLists : pair[1][1] = pair[2][1]}
TwinInputs ==
    {[first |-> Response(List(pair[1]), cd),
      second |-> Response(List(pair[2]), cd),
      prev |-> p] :
        pair \in SameFirst, cd \in CurrentDates, p \in PrevMessages}

InitTwin == StudyInit(TwinInputs, "call cycle")

ApplyCycle ==
    /\ pc = "call cycle"
    /\ result' = [first |-> CycleOutcome(arg.first, arg.prev),
                  second |-> CycleOutcome(arg.second, arg.prev)]
    /\ pc' = "cycle returned"
    /\ UNCHANGED <<tokens, now, current_timestamp, prev_message, locals,
                   from_date, history, arg>>

NextTwin == ApplyCycle

SpecTwin == InitTwin /\ [][NextTwin]_vars

\* C14: two responses with the same first record (and the same
\* current_date), whatever their later records, give the same cycle: the
\* same success or failure and the same text passed to send_message.
C14_OnlyFirstRecordMatters ==
    pc = "cycle returned" => result.first = result.second

C14_Witness ==
    /\ pc = "cycle returned"
    /\ Len(arg.first.homeworks.items) = 1
    /\ Len(arg.second.homeworks.items) > 1
    /\ arg.second.homeworks.items[2] = Homework(Absent, Absent)
    /\ ~result.second.failed
    /\ StatusText(result.second.message)

(***************************************************************************)
(* Properties of prev_message and of the sends of one cycle                *)
(***************************************************************************)
\* C15: in the loop prev_message is None while no send_message call has
\* returned, and otherwise the text of the latest call that returned; it is
\* assigned only right after such a call, and the text of a call that raised
\* is not recorded.
C15_PrevMessageIsLastDelivered ==
    /\ [](InLoop =>
            /\ prev_message = last_delivered
            /\ \A i \in DOMAIN sends :
                  ~sends[i].ok => prev_message # sends[i].text)
    /\ [][prev_message' # prev_message =>
            sends' = Append(sends, Delivery(prev_message'))]_vars

C15_Witness ==
    /\ CycleOver
    /\ Len(sends) = 2
    /\ ~sends[1].ok /\ StatusText(sends[1].text)
    /\ sends[2].ok
    /\ prev_message = sends[2].text
    /\ prev_before # None

Delivered_(q) == {i \in DOMAIN q : q[i].ok}

\* C16: within one cycle send_message is called at most twice and returns at
\* most once; an error text is sent only when no status text was delivered in
\* the cycle, so no cycle delivers both.
C16_AtMostOneDeliveryPerCycle ==
    InLoop =>
        /\ Len(sends) <= 2
        /\ Cardinality(Delivered_(sends)) <= 1
        /\ Cardinality({i \in DOMAIN sends : StatusText(sends[i].text)}) <= 1
        /\ \A i, j \in DOMAIN sends :
              ErrorPrefixed(sends[i].text) /\ StatusText(sends[j].text)
                  => j < i /\ ~sends[j].ok

C16_Witness ==
    /\ pc = "crashed"
    /\ Len(sends) = 2
    /\ Delivered_(sends) = {}
    /\ StatusText(sends[1].text) /\ ErrorPrefixed(sends[2].text)

====
